---- MODULE Spec2Model ----
(***************************************************************************)
(* Gaussian NeRF: the field (nerfstudio/fields/gaussian_NeRF_Field.py) and *)
(* the model that drives it (nerfstudio/models/gaussian_NeRF.py).          *)
(*                                                                         *)
(* Real numbers are fixed point: a tensor element, a coordinate, alpha and *)
(* sigma are integers counting thousandths (Scale = 1.0).  Values of the   *)
(* exponential are carried at ExpScale = 1.0 so that the small tails of    *)
(* the Gaussian kernel stay non-zero, as they do in float32.  The results  *)
(* of the inverse normal CDF are extended reals: finite, -inf, +inf, NaN.  *)
(***************************************************************************)
EXTENDS Integers, Sequences, FiniteSets, TLC

Scale == 10 * 10 * 10
ExpScale == 100 * Scale

\* Bounds of the model.
MaxRes == 5
MaxIter == 2

(***************************************************************************)
(* Arithmetic of the tensor library, in fixed point.                       *)
(***************************************************************************)
Abs(a) == IF a < 0 THEN -a ELSE a

\* a / b rounded towards zero, so that -x / b = -(x / b) as in floating point.
FDiv(a, b) == IF a < 0 THEN -((-a) \div b) ELSE a \div b

\* product of two fixed-point numbers
FMul(a, b) == FDiv(a * b, Scale)

\* e^(-k) for k = 0..13 at scale 10^6, and e^k for k = 1..6 at scale 10^3.
ExpNegTable == <<1000000, 367879, 135335, 49787, 18316, 6738, 2479, 912,
                 335, 123, 45, 17, 6, 2>>
ExpPosTable == <<2718, 7389, 20086, 54598, 148413, 403429>>

\* e^(r / Scale) at ExpScale for |r| <= Scale / 2: the Taylor polynomial of
\* degree 6 in Horner form.
ExpFrac(r) ==
    LET H(k, acc) == ExpScale + FDiv(r * acc, k * Scale)
    IN  H(1, H(2, H(3, H(4, H(5, H(6, ExpScale))))))

\* torch.exp: e^(x / Scale) at ExpScale, by range reduction x = n + r with n
\* the nearest integer.  Below e^-13 the result underflows to 0; above e^6
\* the table ends and the value saturates (no input of the model gets
\* there).
Exp(x) ==
    LET n == (x + Scale \div 2) \div Scale
        r == x - n * Scale
        t == ExpFrac(r)
    IN  IF n < -13 THEN 0
        ELSE IF n <= 0
             THEN LET a == ExpNegTable[1 - n]
                  IN  ((a \div Scale) * t) \div Scale
                      + ((a % Scale) * t) \div (Scale * Scale)
        ELSE LET m == IF n > 6 THEN 6 ELSE n
                 u == IF n > 6 THEN ExpFrac(Scale \div 2) ELSE t
             IN  (ExpPosTable[m] * (u \div 100)) \div 10

\* torch.nn.Sigmoid: 1 / (1 + e^-x), result in 0..Scale.
Sigmoid(x) ==
    IF x >= 0 THEN (Scale * ExpScale) \div (ExpScale + Exp(-x))
    ELSE (Scale * Exp(x)) \div (ExpScale + Exp(x))

\* torch.nn.ReLU
ReLU(x) == IF x > 0 THEN x ELSE 0

(***************************************************************************)
(* Extended reals, the values of Normal(0, 1).icdf.                        *)
(***************************************************************************)
Fin(n) == [k |-> "fin", v |-> n]
NaN == [k |-> "nan", v |-> 0]
PosInf == [k |-> "+inf", v |-> 0]
NegInf == [k |-> "-inf", v |-> 0]
IsFinite(x) == x.k = "fin"

\* Quantiles of the standard normal: Phi^-1(IcdfKnots[i] / Scale) =
\* IcdfValues[i] / Scale on the upper half, linear in between.
IcdfKnots == <<500, 550, 600, 650, 700, 750, 800, 850, 900, 950, 975, 990,
               995, 999>>
IcdfValues == <<0, 126, 253, 385, 524, 674, 842, 1036, 1282, 1645, 1960,
                2326, 2576, 3090>>

IcdfSegment(q) ==
    CHOOSE j \in 1..(Len(IcdfKnots) - 1) :
        IcdfKnots[j] <= q /\ q <= IcdfKnots[j + 1]

IcdfOnSegment(q, i) ==
    IcdfValues[i]
    + ((q - IcdfKnots[i]) * (IcdfValues[i + 1] - IcdfValues[i]))
      \div (IcdfKnots[i + 1] - IcdfKnots[i])

IcdfUpper(q) == IcdfOnSegment(q, IcdfSegment(q))

\* torch.distributions.Normal(0, 1).icdf(p) = sqrt(2) * erfinv(2p - 1):
\* -inf at 0, +inf at 1, NaN outside [0, 1], and no clamping of its input.
Icdf(p) ==
    IF p < 0 \/ p > Scale THEN NaN
    ELSE IF p = 0 THEN NegInf
    ELSE IF p = Scale THEN PosInf
    ELSE IF p >= Scale \div 2 THEN Fin(IcdfUpper(p))
    ELSE Fin(-IcdfUpper(Scale - p))

\* sigma * x for sigma > 0 and x an extended real
ScaleExt(sigma, x) == IF IsFinite(x) THEN Fin(FMul(sigma, x.v)) ELSE x

\* The derivative of Icdf at p, as autograd has it: the slope of the
\* quantile function, infinite at 0 and at 1.
SlopeOnSegment(i) ==
    ((IcdfValues[i + 1] - IcdfValues[i]) * Scale)
    \div (IcdfKnots[i + 1] - IcdfKnots[i])

IcdfSlope(p) ==
    IF p < 0 \/ p > Scale THEN NaN
    ELSE IF p = 0 \/ p = Scale THEN PosInf
    ELSE Fin(SlopeOnSegment(
             IcdfSegment(IF p >= Scale \div 2 THEN p ELSE Scale - p)))

\* x * d for an extended x and a finite d: inf * 0 = NaN.
ExtMul(x, d) ==
    IF IsFinite(x) THEN Fin(FMul(x.v, d))
    ELSE IF x.k = "nan" \/ d = 0 THEN NaN
    ELSE IF (x.k = "+inf") = (d > 0) THEN PosInf ELSE NegInf

\* floor of the square root, by Newton's iteration
RECURSIVE Newton(_, _)
Newton(n, x) ==
    LET y == (x + n \div x) \div 2
    IN  IF y >= x THEN x ELSE Newton(n, y)
ISqrt(n) == IF n = 0 THEN 0 ELSE Newton(n, n)

(***************************************************************************)
(* Tensors.  A volume is a record [shape, val]: shape = <<n0, n1, n2>> and *)
(* val maps <<i, j, k>>, 0-based, to an element.  The leading batch and    *)
(* channel axes of the 5-D tensors have length 1 and are left out.         *)
(***************************************************************************)
RECURSIVE SeqSum(_)
SeqSum(s) == IF s = <<>> THEN 0 ELSE Head(s) + SeqSum(Tail(s))

Idx(shape) == (0..(shape[1] - 1)) \X (0..(shape[2] - 1)) \X (0..(shape[3] - 1))

\* The explicit value of a volume: every element is computed once here, and
\* not again at each later read.
Tensor(shape, val) == [shape |-> shape, val |-> val @@ <<>>]

\* torch.ones / torch.zeros, and the elementwise operations on a volume
Full(R, c) == Tensor(<<R, R, R>>, [i \in Idx(<<R, R, R>>) |-> c])
ReLUGrid(vol) == Tensor(vol.shape, [i \in Idx(vol.shape) |-> ReLU(vol.val[i])])
SigmoidGrid(vol) ==
    Tensor(vol.shape, [i \in Idx(vol.shape) |-> Sigmoid(vol.val[i])])
Affine(a, vol, b) ==
    Tensor(vol.shape, [i \in Idx(vol.shape) |-> FMul(a, vol.val[i]) + b])

\* The kernel length without the step that makes it odd.
KernelSize_truncated(sigma) == (sigma * 5) \div Scale

\* make_gaussian_kernel(sigma): the kernel gauss / gauss.sum() is kept as
\* the exact fraction num[i] / den.
KernelSize(sigma) ==
    LET ks == (sigma * 5) \div Scale
    IN  IF ks % 2 = 0 THEN ks + 1 ELSE ks

\* torch.linspace(-ks // 2, ks // 2 + 1, ks); Python reads -ks // 2 as
\* (-ks) // 2, the floor.
KernelSupport(ks) ==
    LET lo == (-ks) \div 2
        hi == ks \div 2 + 1
    IN  [i \in 1..ks |->
            IF ks = 1 THEN lo * Scale
            ELSE lo * Scale + FDiv((i - 1) * (hi - lo) * Scale, ks - 1)]

make_gaussian_kernel(sigma) ==
    LET ks == KernelSize(sigma)
        ts == KernelSupport(ks)
        q(i) == FDiv(ts[i] * Scale, sigma)
        gauss == [i \in 1..ks |-> Exp(-(FMul(q(i), q(i)) \div 2))]
    IN  [num |-> gauss, den |-> SeqSum(gauss)]

\* permute(0, 1, 3, 2, 4): the first two spatial axes change places.
Permute_swap(vol) ==
    LET sh == <<vol.shape[2], vol.shape[1], vol.shape[3]>>
    IN  Tensor(sh, [i \in Idx(sh) |-> vol.val[<<i[2], i[1], i[3]>>]])

\* vol_in.permute(0, 1, 4, 2, 3): the last spatial axis moves to the front.
Permute(vol) ==
    LET sh == <<vol.shape[3], vol.shape[1], vol.shape[2]>>
    IN  Tensor(sh, [i \in Idx(sh) |-> vol.val[<<i[2], i[3], i[1]>>]])

\* The convolution with the border replicated instead of padded with zeros.
Conv1d_replicate(vol, k) ==
    LET ks == Len(k.num)
        pad == ks \div 2
        At(x, i) == IF x < 0 THEN vol.val[<<0, i[2], i[3]>>]
                    ELSE IF x >= vol.shape[1]
                    THEN vol.val[<<vol.shape[1] - 1, i[2], i[3]>>]
                    ELSE vol.val[<<x, i[2], i[3]>>]
    IN  Tensor(vol.shape, [i \in Idx(vol.shape) |->
            FDiv(SeqSum([t \in 1..ks |-> k.num[t] * At(i[1] + t - 1 - pad, i)]),
                 k.den)])

\* F.conv3d(vol_in, k1d, stride=1, padding=(len(k) // 2, 0, 0)) with k1d of
\* shape (len(k), 1, 1): a cross-correlation along the first spatial axis,
\* the volume padded with zeros.
Conv1d(vol, k) ==
    LET ks == Len(k.num)
        pad == ks \div 2
        n0 == vol.shape[1] + 2 * pad - ks + 1
        sh == <<n0, vol.shape[2], vol.shape[3]>>
        At(x, i) == IF 0 <= x /\ x < vol.shape[1]
                    THEN vol.val[<<x, i[2], i[3]>>] ELSE 0
    IN  Tensor(sh, [i \in Idx(sh) |->
            FDiv(SeqSum([t \in 1..ks |-> k.num[t] * At(i[1] + t - 1 - pad, i)]),
                 k.den)])

\* apply_3d_gaussian_blur: three times permute, then convolve the first axis.
apply_3d_gaussian_blur(input_grid, k) ==
    LET Step(v) == Conv1d(Permute(v), k)
    IN  Step(Step(Step(input_grid)))

\* F.grid_sample(vol, p, align_corners=True): trilinear, zeros outside.  The
\* first coordinate of p indexes the LAST axis of the volume; -1 and +1 are
\* the centres of the first and the last element.
SampleLo(c, n) == ((c + Scale) * (n - 1)) \div (2 * Scale)
SampleFr(c, n) == ((c + Scale) * (n - 1)) % (2 * Scale)
VolAt(vol, i) == IF i \in Idx(vol.shape) THEN vol.val[i] ELSE 0
Lerp(a, b, fr) == FDiv(a * (2 * Scale - fr) + b * fr, 2 * Scale)

GridSample(vol, p) ==
    LET x0 == SampleLo(p[1], vol.shape[3])
        y0 == SampleLo(p[2], vol.shape[2])
        z0 == SampleLo(p[3], vol.shape[1])
        fx == SampleFr(p[1], vol.shape[3])
        fy == SampleFr(p[2], vol.shape[2])
        fz == SampleFr(p[3], vol.shape[1])
        AlongX(z, y) == Lerp(VolAt(vol, <<z, y, x0>>),
                             VolAt(vol, <<z, y, x0 + 1>>), fx)
        AlongY(z) == Lerp(AlongX(z, y0), AlongX(z, y0 + 1), fy)
    IN  Lerp(AlongY(z0), AlongY(z0 + 1), fz)

\* The gradient of GridSample(vol, p) in p, <<d/dx, d/dy, d/dz>>, as the
\* backward pass of grid_sample gives it: along each axis the difference of
\* the two faces of the cell of p, interpolated in the other two axes, times
\* (n - 1) / 2.
GridSampleGrad(vol, p) ==
    LET x0 == SampleLo(p[1], vol.shape[3])
        y0 == SampleLo(p[2], vol.shape[2])
        z0 == SampleLo(p[3], vol.shape[1])
        fx == SampleFr(p[1], vol.shape[3])
        fy == SampleFr(p[2], vol.shape[2])
        fz == SampleFr(p[3], vol.shape[1])
        V(z, y, x) == VolAt(vol, <<z, y, x>>)
        DX(z, y) == V(z, y, x0 + 1) - V(z, y, x0)
        DY(z, x) == V(z, y0 + 1, x) - V(z, y0, x)
        DZ(y, x) == V(z0 + 1, y, x) - V(z0, y, x)
        gx == Lerp(Lerp(DX(z0, y0), DX(z0, y0 + 1), fy),
                   Lerp(DX(z0 + 1, y0), DX(z0 + 1, y0 + 1), fy), fz)
        gy == Lerp(Lerp(DY(z0, x0), DY(z0, x0 + 1), fx),
                   Lerp(DY(z0 + 1, x0), DY(z0 + 1, x0 + 1), fx), fz)
        gz == Lerp(Lerp(DZ(y0, x0), DZ(y0, x0 + 1), fx),
                   Lerp(DZ(y0 + 1, x0), DZ(y0 + 1, x0 + 1), fx), fy)
    IN  <<FDiv((vol.shape[3] - 1) * gx, 2),
          FDiv((vol.shape[2] - 1) * gy, 2),
          FDiv((vol.shape[1] - 1) * gz, 2)>>

\* F.interpolate(vol, scale_factor=2), mode nearest
Interpolate2(vol) ==
    LET sh == <<2 * vol.shape[1], 2 * vol.shape[2], 2 * vol.shape[3]>>
    IN  Tensor(sh, [i \in Idx(sh) |->
            vol.val[<<i[1] \div 2, i[2] \div 2, i[3] \div 2>>]])

(***************************************************************************)
(* Results of a call: a value, or the exception that left it.              *)
(***************************************************************************)
Returned(v) == [status |-> "returned", exc |-> "", val |-> v]
Raised(e) == [status |-> "raised", exc |-> e, val |-> [none |-> TRUE]]
NoResult == [status |-> "none", exc |-> "", val |-> [none |-> TRUE]]

(***************************************************************************)
(* The inputs of the model.                                                *)
(***************************************************************************)
\* GaussianNeRFModelConfig: the declared values of each knob and one value
\* outside them (the dataclass does not check its Literal annotations).
FInitModes == {"ones", "zeros", "rand"}
MalformedFInit == "gaussian"
Resolutions == {2}
FTransitionNames == {"relu", "sigmoid", "tanh"}
GTransitionNames == {"identity", "sigmoid", "softplus"}
AlphaIncrements == {0, 500}
Sigmas == {1000}
NumSeeds == 1

g_transition_alpha_default == 4000
density_multiplier_default == 1000
render_step_size == 10

Configs ==
    [f_init : FInitModes,
     f_transition_function : FTransitionNames,
     f_grid_resolution : Resolutions,
     sigma : Sigmas,
     g_transition_function : GTransitionNames,
     g_transition_alpha : {g_transition_alpha_default},
     g_transition_alpha_increments : AlphaIncrements,
     render_step_size : {render_step_size}]

\* torch.rand(R, R, R): every element is some number of [0, 1); the draws of
\* the model repeat a short sequence from an offset.
RandDraws == <<0, 500, 999>>
Rand(R, seed) ==
    Tensor(<<R, R, R>>, [i \in Idx(<<R, R, R>>) |->
        RandDraws[((seed + i[1] + 2 * i[2] + 3 * i[3]) % Len(RandDraws)) + 1]])

\* Outputs of the backbone mlp_base for a batch: the base density and the
\* geometric feature.
BackboneOutputs ==
    {[base_density |-> 0, base_mlp_out |-> "feat0"],
     [base_density |-> 700, base_mlp_out |-> "feat1"]}

\* Sample positions after contract(), in [0, 1]^3.
Points == {<<500, 500, 500>>, <<0, 250, 1000>>}

(***************************************************************************)
(* TCNNGaussianNeRFField                                                   *)
(***************************************************************************)
\* The rand branch without its rescaling to [0.5, 1).
InitGrid_unscaled(f_init, R, seed) ==
    IF f_init = "ones" THEN Full(R, Scale)
    ELSE IF f_init = "zeros" THEN Full(R, 0)
    ELSE Rand(R, seed)

\* __init__: the learnable grid f by mode, then the attributes as given.
InitGrid(f_init, R, seed) ==
    IF f_init = "ones" THEN Full(R, Scale)
    ELSE IF f_init = "zeros" THEN Full(R, 0)
    ELSE Affine(Scale \div 2, Rand(R, seed), Scale \div 2)

TCNNGaussianNeRFField(sigma, f_init, f_transition_function, f_grid_resolution, g_transition_function, g_transition_alpha, g_transition_alpha_increments, seed) ==
    [f |-> InitGrid(f_init, f_grid_resolution, seed),
     f_transition_function |-> f_transition_function,
     occupancy_to_density_transformation_function |-> "exponential",
     sigma |-> sigma,
     gaussian_kernel |-> make_gaussian_kernel(sigma),
     g_transition_function |-> g_transition_function,
     g_transition_alpha |-> g_transition_alpha,
     g_transition_alpha_increments |-> g_transition_alpha_increments,
     density_multiplier |-> density_multiplier_default]

\* The f-transition followed by the blur, as get_density and
\* get_certified_radius both compute it.  Only called with a known
\* f_transition_function: any other name leaves smoothed_grid unbound.
SmoothedGrid(self) ==
    IF self.f_transition_function = "relu"
    THEN apply_3d_gaussian_blur(ReLUGrid(self.f), self.gaussian_kernel)
    ELSE apply_3d_gaussian_blur(SigmoidGrid(self.f), self.gaussian_kernel)

\* torch.nn.Sigmoid()(alpha * (smoothed_grid - 1/2))
Sharpened(alpha, vol) ==
    Tensor(vol.shape, [i \in Idx(vol.shape) |->
        Sigmoid(FMul(alpha, vol.val[i] - Scale \div 2))])

\* The g-transition: the sharpening sigmoid, or (for every other name) the
\* smoothed grid itself.
ArgMaxedSmoothedGrid(self, smoothed_grid) ==
    IF self.g_transition_function = "sigmoid"
    THEN Sharpened(self.g_transition_alpha, smoothed_grid)
    ELSE smoothed_grid

\* trunc_exp: exp in the forward pass
trunc_exp(x) == Exp(x) \div (ExpScale \div Scale)

\* positions_rescaled = (positions_flat * 2) - 1
Rescaled(x) == [c \in 1..3 |-> 2 * x[c] - Scale]

\* density_multiplier * exp(sigma * icdf(o)) of a sampled occupancy o, as an
\* extended real.
DensityOfRadius(density_multiplier, sigma, o) ==
    IF ScaleExt(sigma, Icdf(o)).k = "fin"
    THEN Fin(FMul(density_multiplier, trunc_exp(ScaleExt(sigma, Icdf(o)).v)))
    ELSE IF ScaleExt(sigma, Icdf(o)).k = "-inf" THEN Fin(0)
    ELSE ScaleExt(sigma, Icdf(o))

\* The density with the sample sent through sigma * icdf before the
\* exponential (0 where that is not a finite number).
Density_icdf(self, arg_maxed_smoothed_grid, positions) ==
    [x \in positions |->
        IF DensityOfRadius(self.density_multiplier, self.sigma,
               GridSample(arg_maxed_smoothed_grid, Rescaled(x))).k = "fin"
        THEN DensityOfRadius(self.density_multiplier, self.sigma,
                 GridSample(arg_maxed_smoothed_grid, Rescaled(x))).v
        ELSE 0] @@ <<>>

\* The density of the batch from the transitioned grid: sample, exponential,
\* multiplier.
Density(self, arg_maxed_smoothed_grid, positions) ==
    [x \in positions |->
        FMul(self.density_multiplier,
             trunc_exp(GridSample(arg_maxed_smoothed_grid, Rescaled(x))))] @@ <<>>

\* The base density of the backbone added to the density of the grid.
get_density_plus_base(self, positions, h) ==
    IF self.f_transition_function \notin {"relu", "sigmoid"}
    THEN Raised("UnboundLocalError")
    ELSE Returned(
           [density |-> [x \in positions |->
                           Density(self,
                                   ArgMaxedSmoothedGrid(self, SmoothedGrid(self)),
                                   positions)[x] + h.base_density],
            base_mlp_out |-> h.base_mlp_out])

\* get_density for a batch of contracted positions; h is what mlp_base
\* returns for the batch.
get_density(self, positions, h) ==
    IF self.f_transition_function \notin {"relu", "sigmoid"}
    THEN Raised("UnboundLocalError")
    ELSE Returned(
           [density |-> Density(self,
                                ArgMaxedSmoothedGrid(self, SmoothedGrid(self)),
                                positions),
            base_mlp_out |-> h.base_mlp_out])

\* get_opacity: density_fn(positions) * step_size
Opacity(d, positions, step_size) ==
    IF d.status = "raised" THEN d
    ELSE Returned([x \in positions |-> FMul(d.val.density[x], step_size)] @@ <<>>)

get_opacity(self, positions, step_size, h) ==
    Opacity(get_density(self, positions, h), positions, step_size)

\* np.linspace(-1, 1, n), n >= 2
Lattice(n) == [i \in 0..(n - 1) |-> FDiv(2 * Scale * i, n - 1) - Scale]

\* eikonal_loss = ((sdf_grads.norm(2, dim=1) - 1) ** 2).mean(), sdf_grads the
\* gradient of sigma * icdf(grid_sample(smoothed_grid, positions)) in the
\* positions, a cubic lattice of n^3 points.  The norm is taken in
\* hundredths.
SdfGrad(slope, g) == [c \in 1..3 |-> ExtMul(slope, g[c])] @@ <<>>

EikonalTerm(g) ==
    IF \E c \in 1..3 : g[c].k = "nan" THEN NaN
    ELSE IF \E c \in 1..3 : ~IsFinite(g[c]) THEN PosInf
    ELSE Fin(FDiv((ISqrt(SeqSum([c \in 1..3 |->
                     FDiv(g[c].v, 10) * FDiv(g[c].v, 10)])) - 100)
                  * (ISqrt(SeqSum([c \in 1..3 |->
                     FDiv(g[c].v, 10) * FDiv(g[c].v, 10)])) - 100), 100))

EikonalMean(terms, n) ==
    IF \E i \in DOMAIN terms : terms[i].k = "nan" THEN NaN
    ELSE IF \E i \in DOMAIN terms : ~IsFinite(terms[i]) THEN PosInf
    ELSE Fin(FDiv(10 * SeqSum([a \in 1..n |-> SeqSum([b \in 1..n |->
                 SeqSum([c \in 1..n |-> terms[<<a - 1, b - 1, c - 1>>].v])])]),
             n * n * n))

EikonalLoss(smoothed_grid, sigma, positions, n) ==
    EikonalMean([i \in DOMAIN positions |->
                    EikonalTerm(SdfGrad(
                        ScaleExt(sigma,
                            IcdfSlope(GridSample(smoothed_grid, positions[i]))),
                        GridSampleGrad(smoothed_grid, positions[i])))] @@ <<>>,
                n)

\* radii = sigma * icdf(F.interpolate(smoothed_grid, scale_factor=2))
Radii(sigma, up) ==
    Tensor(up.shape, [i \in Idx(up.shape) |-> ScaleExt(sigma, Icdf(up.val[i]))])

\* The lattice of positions: the cartesian product of the line with itself.
LatticePositions(line, n) ==
    [i \in Idx(<<n, n, n>>) |-> <<line[i[1]], line[i[2]], line[i[3]]>>] @@ <<>>

CertifiedRadius(self, smoothed_grid, n) ==
    [radii |-> Radii(self.sigma, Interpolate2(smoothed_grid)),
     eikonal_loss |->
         EikonalLoss(smoothed_grid, self.sigma,
                     LatticePositions(Lattice(n), n), n)]

\* The radius taken from the grid after the g-transition.
get_certified_radius_sharpened(self, grad_enabled, device_fault) ==
    IF device_fault THEN Raised("OutOfMemoryError")
    ELSE IF self.f_transition_function \notin {"relu", "sigmoid"}
    THEN Raised("UnboundLocalError")
    ELSE IF ~grad_enabled THEN Raised("RuntimeError")
    ELSE Returned(CertifiedRadius(self,
                      ArgMaxedSmoothedGrid(self, SmoothedGrid(self)),
                      2 * self.f.shape[3]))

\* get_certified_radius.  grad_enabled is the gradient mode it is called
\* in; device_fault is the accelerator refusing the lattice of positions
\* (.cuda() of (2R)^3 points).
get_certified_radius(self, grad_enabled, device_fault) ==
    IF device_fault THEN Raised("OutOfMemoryError")
    ELSE IF self.f_transition_function \notin {"relu", "sigmoid"}
    THEN Raised("UnboundLocalError")
    ELSE IF ~grad_enabled THEN Raised("RuntimeError")
    ELSE Returned(CertifiedRadius(self, SmoothedGrid(self), 2 * self.f.shape[3]))

(***************************************************************************)
(* GaussianNeRFModel                                                       *)
(***************************************************************************)
\* populate_modules: the field from the configuration
populate_modules(cfg, seed) ==
    TCNNGaussianNeRFField(cfg.sigma, cfg.f_init, cfg.f_transition_function,
                          cfg.f_grid_resolution, cfg.g_transition_function,
                          cfg.g_transition_alpha,
                          cfg.g_transition_alpha_increments, seed)

\* The two callbacks registered in the other order.
get_training_callbacks_swapped ==
    <<[where_to_run |-> "BEFORE_TRAIN_ITERATION", update_every_num_iters |-> 1,
       func |-> "update_alpha_value"],
      [where_to_run |-> "BEFORE_TRAIN_ITERATION", update_every_num_iters |-> 1,
       func |-> "update_occupancy_grid"]>>

\* get_training_callbacks: the list it returns, in order
get_training_callbacks ==
    <<[where_to_run |-> "BEFORE_TRAIN_ITERATION", update_every_num_iters |-> 1,
       func |-> "update_occupancy_grid"],
      [where_to_run |-> "BEFORE_TRAIN_ITERATION", update_every_num_iters |-> 1,
       func |-> "update_alpha_value"]>>

\* The increment added to the grid as well as to alpha.
update_alpha_value_on_grid(self) ==
    [self EXCEPT !.g_transition_alpha = @ + self.g_transition_alpha_increments,
                 !.f = Affine(Scale, @, self.g_transition_alpha_increments)]

\* The increment written as an assignment.
update_alpha_value_assign(self) ==
    [self EXCEPT !.g_transition_alpha = self.g_transition_alpha_increments]

\* update_alpha_value
update_alpha_value(self) ==
    [self EXCEPT !.g_transition_alpha = @ + self.g_transition_alpha_increments]

\* get_outputs: the sampler gives the sample x, the field its density and
\* colour (from the geometric feature), the renderers the images.
Outputs(d, x) ==
    IF d.status = "raised" THEN d
    ELSE Returned([sample |-> x, density |-> d.val.density[x],
                   rgb |-> <<"mlp_head", d.val.base_mlp_out>>])

get_outputs(self, x, h) == Outputs(get_density(self, {x}, h), x)

\* get_metrics_dict
SetMin(S) == CHOOSE m \in S : \A e \in S : m <= e
SetMax(S) == CHOOSE m \in S : \A e \in S : m >= e
Elements(vol) == {vol.val[i] : i \in Idx(vol.shape)}
get_metrics_dict(self, outs) ==
    Returned([psnr |-> outs.rgb,
              F_min |-> SetMin(Elements(self.f)),
              F_max |-> SetMax(Elements(self.f)),
              alpha_value |-> self.g_transition_alpha])

\* get_loss_dict
get_loss_dict(outs) == Returned([rgb_loss |-> outs.rgb])

\* One radius heatmap: clamp((slice - min) / (max - min), 0, 1)
Clamp(v, lo, hi) == IF v < lo THEN lo ELSE IF v > hi THEN hi ELSE v
Heatmap(r, sigma) ==
    IF r.k = "nan" THEN NaN
    ELSE IF r.k = "-inf" THEN Fin(0)
    ELSE IF r.k = "+inf" THEN Fin(Scale)
    ELSE Fin(Clamp(FDiv((r.v + 4 * sigma) * Scale, 8 * sigma), 0, Scale))

\* get_image_metrics_and_images.  The try block binds the three heatmaps
\* only when get_certified_radius returns; the bare except swallows what it
\* raises; images_dict then reads the heatmaps, bound or not.
Heatmaps(radii, R, sigma) ==
    [x |-> [i \in (0..(2 * R - 1)) \X (0..(2 * R - 1)) |->
               Heatmap(radii.val[<<R, i[1], i[2]>>], sigma)] @@ <<>>,
     y |-> [i \in (0..(2 * R - 1)) \X (0..(2 * R - 1)) |->
               Heatmap(radii.val[<<i[1], R, i[2]>>], sigma)] @@ <<>>,
     z |-> [i \in (0..(2 * R - 1)) \X (0..(2 * R - 1)) |->
               Heatmap(radii.val[<<i[1], i[2], R>>], sigma)] @@ <<>>]

\* The four rendered images are tensors the model does not look into.
ImagesDict(outs, heatmaps) ==
    [img |-> "combined_rgb", accumulation |-> "combined_acc",
     depth |-> "combined_depth", alive_ray_mask |-> "combined_alive_ray_mask",
     radiix_heatmap |-> heatmaps.x,
     radiiy_heatmap |-> heatmaps.y,
     radiiz_heatmap |-> heatmaps.z]

get_image_metrics_and_images(self, outs, radius) ==
    IF radius.status = "returned"
    THEN Returned(
           [metrics_dict |-> {"psnr", "ssim", "lpips"},
            images_dict |->
                ImagesDict(outs, Heatmaps(radius.val.radii, self.f.shape[3],
                                          self.sigma))])
    ELSE Raised("UnboundLocalError")

(***************************************************************************)
(* The optimizer: one step moves the grid along a gradient.  The steps of  *)
(* the model add a constant to every element, or lower one corner.         *)
(***************************************************************************)
GridSteps(f) ==
    {Affine(Scale, f, Scale),
     Tensor(f.shape, [i \in Idx(f.shape) |->
         IF i = <<0, 0, 0>> THEN f.val[i] - 600 ELSE f.val[i]])}

(***************************************************************************)
(* State                                                                   *)
(***************************************************************************)
VARIABLES
    config,          \* the GaussianNeRFModelConfig the model was built from
    field,           \* the TCNNGaussianNeRFField
    pc,              \* where the trainer is
    step,            \* training iterations completed
    cb_next,         \* index of the next callback of this iteration
    iter_log,        \* the operations of the current iteration, in order
    outputs,         \* the result of the last forward pass
    op,              \* the last operation
    ret,             \* what it returned or raised
    calls,           \* the field methods it called, with the gradient mode
    radius           \* the result of its get_certified_radius call

vars == <<config, field, pc, step, cb_next, iter_log, outputs, op, ret,
          calls, radius>>

Call(fn, grad) == [fn |-> fn, grad_enabled |-> grad, context |-> grad]

Init ==
    /\ \E cfg \in Configs, seed \in 0..(NumSeeds - 1) :
           /\ config = cfg
           /\ field = populate_modules(cfg, seed)
    /\ pc = "callbacks"
    /\ step = 0
    /\ cb_next = 1
    /\ iter_log = <<>>
    /\ outputs = NoResult
    /\ op = "populate_modules"
    /\ ret = Returned([none |-> TRUE])
    /\ calls = <<>>
    /\ radius = NoResult

(***************************************************************************)
(* The trainer: every iteration runs the BEFORE_TRAIN_ITERATION callbacks  *)
(* in the order of the list, then the forward pass, the metrics, the loss  *)
(* and the optimizer step.  An exception ends the run.                     *)
(***************************************************************************)
CallbackDue(func) ==
    /\ pc = "callbacks"
    /\ step < MaxIter
    /\ cb_next <= Len(get_training_callbacks)
    /\ get_training_callbacks[cb_next].func = func
    /\ get_training_callbacks[cb_next].where_to_run = "BEFORE_TRAIN_ITERATION"
    /\ step % get_training_callbacks[cb_next].update_every_num_iters = 0

AfterCallback(func, ok) ==
    /\ iter_log' = Append(iter_log, func)
    /\ op' = func
    /\ IF ok
       THEN /\ cb_next' = cb_next + 1
            /\ pc' = IF cb_next = Len(get_training_callbacks)
                     THEN "forward" ELSE "callbacks"
       ELSE /\ cb_next' = cb_next
            /\ pc' = "crashed"

\* update_occupancy_grid: occupancy_grid.every_n_step evaluates occ_eval_fn
\* (get_opacity with render_step_size) on the steps it refreshes the grid,
\* and hands the opacities to the grid.  What the callback handed over is
\* its result here.
update_occupancy_grid(self, cfg, refresh, h) ==
    IF refresh
    THEN get_opacity(self, Points, cfg.render_step_size, h)
    ELSE Returned([x \in Points |-> 0] @@ <<>>)

UpdateOccupancyGrid ==
    /\ CallbackDue("update_occupancy_grid")
    /\ \E refresh \in BOOLEAN, h \in BackboneOutputs :
         \E r \in {update_occupancy_grid(field, config, refresh, h)} :
             /\ ret' = [r EXCEPT !.val = [refreshed |-> refresh,
                                         alpha |-> field.g_transition_alpha,
                                         occs |-> r.val]]
             /\ calls' = IF refresh THEN <<Call("get_opacity", FALSE),
                                           Call("get_density", FALSE)>>
                         ELSE <<>>
             /\ AfterCallback("update_occupancy_grid", r.status = "returned")
    /\ radius' = NoResult
    /\ UNCHANGED <<config, field, step, outputs>>

UpdateAlphaValue ==
    /\ CallbackDue("update_alpha_value")
    /\ field' = update_alpha_value(field)
    /\ ret' = Returned([none |-> TRUE])
    /\ calls' = <<>>
    /\ radius' = NoResult
    /\ AfterCallback("update_alpha_value", TRUE)
    /\ UNCHANGED <<config, step, outputs>>

TrainGetOutputs ==
    /\ pc = "forward"
    /\ \E x \in Points, h \in BackboneOutputs :
         \E r \in {get_outputs(field, x, h)} :
             /\ ret' = r
             /\ outputs' = r
             /\ pc' = IF r.status = "raised" THEN "crashed" ELSE "metrics"
    /\ op' = "get_outputs"
    /\ iter_log' = Append(iter_log, "get_outputs")
    /\ calls' = <<Call("get_density", TRUE)>>
    /\ radius' = NoResult
    /\ UNCHANGED <<config, field, step, cb_next>>

GetMetricsDict ==
    /\ pc = "metrics"
    /\ ret' = get_metrics_dict(field, outputs.val)
    /\ op' = "get_metrics_dict"
    /\ iter_log' = Append(iter_log, "get_metrics_dict")
    /\ pc' = "loss"
    /\ calls' = <<>>
    /\ radius' = NoResult
    /\ UNCHANGED <<config, field, step, cb_next, outputs>>

GetLossDict ==
    /\ pc = "loss"
    /\ ret' = get_loss_dict(outputs.val)
    /\ op' = "get_loss_dict"
    /\ iter_log' = Append(iter_log, "get_loss_dict")
    /\ pc' = "backward"
    /\ calls' = <<>>
    /\ radius' = NoResult
    /\ UNCHANGED <<config, field, step, cb_next, outputs>>

OptimizerStep ==
    /\ pc = "backward"
    /\ \E g \in GridSteps(field.f) : field' = [field EXCEPT !.f = g]
    /\ step' = step + 1
    /\ pc' = "callbacks"
    /\ cb_next' = 1
    /\ iter_log' = <<>>
    /\ outputs' = NoResult
    /\ op' = "optimizer_step"
    /\ ret' = NoResult
    /\ calls' = <<>>
    /\ radius' = NoResult
    /\ UNCHANGED config

\* Between two iterations the trainer may evaluate an image: a forward pass
\* without gradients, then get_image_metrics_and_images.
EvalGetOutputs ==
    /\ pc = "callbacks"
    /\ cb_next = 1
    /\ \E x \in Points, h \in BackboneOutputs :
         \E r \in {get_outputs(field, x, h)} :
             /\ ret' = r
             /\ outputs' = r
             /\ pc' = IF r.status = "raised" THEN "crashed" ELSE "eval_image"
    /\ op' = "get_outputs"
    /\ calls' = <<Call("get_density", FALSE)>>
    /\ radius' = NoResult
    /\ UNCHANGED <<config, field, step, cb_next, iter_log>>

\* A block that keeps the gradient mode of its context.
keep_grad(context) == context

\* torch.enable_grad(): the gradient mode inside the block, whatever the
\* mode of the context that enters it.
enable_grad(context) == TRUE

\* get_image_metrics_and_images is entered with gradients on or off
\* (context); it calls get_certified_radius under torch.enable_grad().
GetImageMetricsAndImages ==
    /\ pc = "eval_image"
    /\ \E device_fault \in BOOLEAN, context \in BOOLEAN :
         \E r \in {get_certified_radius(field, enable_grad(context),
                                       device_fault)} :
             /\ radius' = r
             /\ calls' = <<[fn |-> "get_certified_radius",
                            grad_enabled |-> enable_grad(context),
                            context |-> context]>>
             /\ ret' = get_image_metrics_and_images(field, outputs.val, r)
    /\ op' = "get_image_metrics_and_images"
    /\ pc' = "callbacks"
    /\ outputs' = NoResult
    /\ UNCHANGED <<config, field, step, cb_next, iter_log>>

Next ==
    \/ UpdateOccupancyGrid
    \/ UpdateAlphaValue
    \/ TrainGetOutputs
    \/ GetMetricsDict
    \/ GetLossDict
    \/ OptimizerStep
    \/ EvalGetOutputs
    \/ GetImageMetricsAndImages

Spec == Init /\ [][Next]_vars

(***************************************************************************)
(* The field on its own: constructed at every resolution up to MaxRes, in  *)
(* every initialisation mode and one malformed mode, then blurred and      *)
(* queried.                                                                *)
(***************************************************************************)
FieldSigmas == {500, 1000, 1500}

FieldConfigs ==
    [f_init : FInitModes \cup {MalformedFInit},
     f_transition_function : {"relu", "sigmoid"},
     f_grid_resolution : 1..MaxRes,
     sigma : FieldSigmas,
     g_transition_function : {"identity"},
     g_transition_alpha : {g_transition_alpha_default},
     g_transition_alpha_increments : {0},
     render_step_size : {render_step_size}]

FieldInit ==
    /\ \E cfg \in FieldConfigs, seed \in 0..(NumSeeds - 1) :
           /\ config = cfg
           /\ field = populate_modules(cfg, seed)
    /\ pc = "field"
    /\ step = 0
    /\ cb_next = 1
    /\ iter_log = <<>>
    /\ outputs = NoResult
    /\ op = "populate_modules"
    /\ ret = Returned([none |-> TRUE])
    /\ calls = <<>>
    /\ radius = NoResult

\* The smoothed grid of the field: the f-transition, then the blur.
Blur ==
    /\ pc = "field"
    /\ ret' = Returned(SmoothedGrid(field))
    /\ op' = "apply_3d_gaussian_blur"
    /\ UNCHANGED <<config, field, pc, step, cb_next, iter_log, outputs, calls,
                   radius>>

\* A density query at one point.
GetDensity ==
    /\ pc = "field"
    /\ \E x \in Points, h \in BackboneOutputs :
           ret' = get_density(field, {x}, h)
    /\ op' = "get_density"
    /\ UNCHANGED <<config, field, pc, step, cb_next, iter_log, outputs, calls,
                   radius>>

\* Test volumes of the shape of the grid: the grid itself, a ramp that
\* tells the three axes apart, and one impulse off the diagonal.
Ramp(shape) ==
    Tensor(shape, [i \in Idx(shape) |-> i[1] + 10 * i[2] + 100 * i[3]])
Impulse(shape, at) ==
    Tensor(shape, [i \in Idx(shape) |-> IF i = at THEN Scale ELSE 0])
TestVolumes(f) ==
    {f, Ramp(f.shape),
     Impulse(f.shape, <<0, 1 % f.shape[2], 2 % f.shape[3]>>)}

\* Test kernels with integer taps, not normalised (the blur is then exact).
TestKernels ==
    {[num |-> <<1>>, den |-> 1],
     [num |-> <<1, 2, 3>>, den |-> 1],
     [num |-> <<1, 0, 2, 0, 4>>, den |-> 1]}

\* apply_3d_gaussian_blur of a test volume with a test kernel in place of
\* the Gaussian one, on the field as constructed.
BlurTestVolume ==
    /\ pc = "field"
    /\ op = "populate_modules"
    /\ \E vol \in TestVolumes(field.f), k \in TestKernels :
           ret' = Returned([vol |-> vol, k |-> k,
                            vol_3d_sep |-> apply_3d_gaussian_blur(vol, k)])
    /\ op' = "apply_3d_gaussian_blur(vol)"
    /\ UNCHANGED <<config, field, pc, step, cb_next, iter_log, outputs, calls,
                   radius>>

FieldNext ==
    \/ Blur
    \/ GetDensity
    \/ BlurTestVolume

FieldSpec == FieldInit /\ [][FieldNext]_vars

(***************************************************************************)
(* Properties                                                              *)
(***************************************************************************)
InLog(func) == \E i \in DOMAIN iter_log : iter_log[i] = func

\* The number of times the callbacks have run the alpha increment: once in
\* every completed iteration, and once more when the current iteration is
\* past it.
AlphaRuns == step + (IF InLog("update_alpha_value") THEN 1 ELSE 0)

\* C1: after N runs of the BEFORE_TRAIN_ITERATION callbacks the field's
\* g_transition_alpha is alpha_0 + N * g_transition_alpha_increments, in
\* every state: whatever other operation ran in between (density, opacity,
\* forward pass, metrics, loss, image metrics with the certified radius,
\* optimizer step) left it as it was.
C1_AlphaAnnealing ==
    field.g_transition_alpha =
        config.g_transition_alpha
            + AlphaRuns * config.g_transition_alpha_increments

\* Two iterations done with a nonzero increment, and an image evaluated
\* after them.
C1_Witness ==
    /\ step = 2
    /\ config.g_transition_alpha_increments = 500
    /\ field.g_transition_alpha = g_transition_alpha_default + 1000
    /\ op = "get_image_metrics_and_images"
    /\ radius.status = "returned"

IterationOrder ==
    <<"update_occupancy_grid", "update_alpha_value", "get_outputs",
      "get_metrics_dict", "get_loss_dict">>

\* C2: the operations of every training iteration are an initial part of
\* occupancy refresh, alpha increment, forward pass, metrics, loss, in this
\* order (so the forward pass has both callbacks before it and the increment
\* has the refresh before it), and a refresh hands the occupancy grid the
\* density times render_step_size at every point.
C2_IterationOrder ==
    /\ \E n \in 0..Len(IterationOrder) : iter_log = SubSeq(IterationOrder, 1, n)
    /\ (op = "update_occupancy_grid" /\ ret.status = "returned"
            /\ ret.val.refreshed)
         => \A h \in BackboneOutputs :
              \E d \in {get_density(field, Points, h)} :
                \A x \in Points :
                  ret.val.occs[x] = FMul(d.val.density[x], config.render_step_size)

\* A whole second iteration.
C2_Witness ==
    /\ step = 1
    /\ iter_log = IterationOrder
    /\ ret.status = "returned"

KnownTransitions ==
    /\ config.f_transition_function \in {"relu", "sigmoid"}
    /\ config.g_transition_function \in {"identity", "sigmoid"}

\* C3: a configuration whose f_transition_function is outside
\* {relu, sigmoid} or whose g_transition_function is outside
\* {identity, sigmoid} is rejected by the constructor: construction raises,
\* and no field built from such a configuration is ever operated on.
C3_FailFast ==
    ~KnownTransitions => (op = "populate_modules" /\ ret.status = "raised")

\* C4: whenever get_certified_radius raises inside
\* get_image_metrics_and_images, get_image_metrics_and_images returns (its
\* metrics and the four rendered images).
C4_RadiusFailureNonFatal ==
    (op = "get_image_metrics_and_images" /\ radius.status = "raised")
        => /\ ret.status = "returned"
           /\ ret.val.metrics_dict = {"psnr", "ssim", "lpips"}
           /\ ret.val.images_dict.img = "combined_rgb"

\* C5: every radius get_certified_radius returns is a finite number
\* (neither NaN nor infinite), whatever the grid.
C5_RadiiFinite ==
    radius.status = "returned"
        => \A i \in DOMAIN radius.val.radii.val :
               IsFinite(radius.val.radii.val[i])

TrainingOps ==
    {"update_occupancy_grid", "update_alpha_value", "get_outputs",
     "get_metrics_dict", "get_loss_dict"}

\* C7: the density of a forward pass is the density get_density gives for
\* the same field and point under every output of the backbone; of the
\* backbone's output only the geometric feature is returned.
C7_DensityIgnoresBackbone ==
    (op = "get_outputs" /\ ret.status = "returned")
        => \A h \in BackboneOutputs :
             \E d \in {get_density(field, {ret.val.sample}, h)} :
                /\ d.val.density[ret.val.sample] = ret.val.density
                /\ d.val.base_mlp_out = h.base_mlp_out

\* A forward pass whose backbone gave a nonzero base density.
C7_Witness ==
    /\ op = "get_outputs"
    /\ ret.status = "returned"
    /\ ret.val.rgb = <<"mlp_head", "feat1">>
    /\ ret.val.density > 0

\* C9: get_certified_radius is called by no operation of a training step,
\* the loss dict holds the rgb loss and nothing else, and every call of
\* get_certified_radius (from get_image_metrics_and_images) runs with
\* gradients enabled, whatever the mode of the surrounding context.
C9_RadiusOnlyInImageMetrics ==
    /\ \A i \in DOMAIN calls :
          calls[i].fn = "get_certified_radius"
              => /\ op = "get_image_metrics_and_images"
                 /\ calls[i].grad_enabled
    /\ op \in TrainingOps => radius = NoResult
    /\ (op = "get_loss_dict" /\ ret.status = "returned")
          => DOMAIN ret.val = {"rgb_loss"}

\* The radius computed during an evaluation that runs without gradients.
C9_Witness ==
    /\ op = "get_image_metrics_and_images"
    /\ Len(calls) = 1
    /\ calls[1].fn = "get_certified_radius"
    /\ ~calls[1].context
    /\ calls[1].grad_enabled
    /\ radius.status = "returned"

\* The transitioned field (f-transition, blur, g-transition) sampled at x.
SampledOccupancy(self, x) ==
    GridSample(ArgMaxedSmoothedGrid(self, SmoothedGrid(self)), Rescaled(x))

C8_GridInit ==
    pc = "field" =>
        /\ config.f_grid_resolution > 0
        /\ field.f.shape = <<config.f_grid_resolution, config.f_grid_resolution,
                             config.f_grid_resolution>>
        /\ DOMAIN field.f.val = Idx(field.f.shape)
        /\ \A i \in Idx(field.f.shape) :
              IF config.f_init = "ones" THEN field.f.val[i] = Scale
              ELSE IF config.f_init = "zeros" THEN field.f.val[i] = 0
              ELSE Scale \div 2 <= field.f.val[i] /\ field.f.val[i] <= Scale

\* A field built in a malformed mode at resolution 3, not constant.
C8_Witness ==
    /\ pc = "field"
    /\ config.f_init = MalformedFInit
    /\ config.f_grid_resolution = 3
    /\ op = "populate_modules"
    /\ ret.status = "returned"
    /\ \E i, j \in Idx(field.f.shape) : field.f.val[i] < field.f.val[j]

OnesThroughReLU ==
    /\ pc = "field"
    /\ op = "apply_3d_gaussian_blur"
    /\ config.f_init = "ones"
    /\ config.f_transition_function = "relu"

\* C10 as stated, at its own example (resolution 4, sigma 1, kernel length
\* 5): the blur of the all-ones grid is 1 at every voxel, the voxels near
\* the boundary included.
C10_BlurOfOnesIsOne ==
    (OnesThroughReLU /\ config.f_grid_resolution = 4 /\ config.sigma = Scale
        /\ Len(field.gaussian_kernel.num) = 5)
        => \A i \in Idx(ret.val.shape) : ret.val.val[i] = Scale

\* The distance of a voxel from the nearest face of the grid.
FaceDistance(i, shape) ==
    SetMin({i[c] : c \in 1..3} \cup {shape[c] - 1 - i[c] : c \in 1..3})

\* C10 amended: the blur of the all-ones grid has the shape of the grid and
\* is 1 at exactly the voxels that are at least kernel_length // 2 away
\* from every face; at every voxel nearer to a face the zero padding makes
\* it less than 1 (and more than 0).
C10_BlurOfOnesInterior ==
    OnesThroughReLU =>
        /\ ret.val.shape = field.f.shape
        /\ \A i \in Idx(ret.val.shape) :
              IF FaceDistance(i, ret.val.shape)
                     >= Len(field.gaussian_kernel.num) \div 2
              THEN ret.val.val[i] = Scale
              ELSE 0 < ret.val.val[i] /\ ret.val.val[i] < Scale

\* Resolution 5 with the kernel of length 5: the centre voxel is 1, the
\* corner is not.
C10_Witness ==
    /\ OnesThroughReLU
    /\ config.f_grid_resolution = 5
    /\ Len(field.gaussian_kernel.num) = 5
    /\ ret.val.val[<<2, 2, 2>>] = Scale
    /\ ret.val.val[<<0, 0, 0>>] < Scale

\* The integers -(ks // 2), ..., 0, ..., ks // 2.
IntegerSupport(ks) == [i \in 1..ks |-> (i - 1 - ks \div 2) * Scale]

\* C11: the kernel of a constructed field has an odd length ks, 5 * sigma
\* rounded to the next odd integer, and is the Gaussian sampled at the
\* integers -(ks // 2), ..., ks // 2: the sample positions are mirrored
\* about 0 and one apart.
C11_IntegerSupport ==
    pc = "field" =>
        \E ks \in {Len(field.gaussian_kernel.num)} :
            /\ ks % 2 = 1
            /\ ks \in {(5 * config.sigma) \div Scale,
                        (5 * config.sigma) \div Scale + 1}
            /\ KernelSupport(ks) = IntegerSupport(ks)
            /\ \A i \in 1..(ks - 1) :
                  KernelSupport(ks)[i + 1] - KernelSupport(ks)[i] = Scale

GridShape == <<config.f_grid_resolution, config.f_grid_resolution,
               config.f_grid_resolution>>

\* C12: at every resolution R and every sigma the kernel length is odd; one
\* permute-then-convolve step (padding kernel_length // 2, stride 1) of an
\* R x R x R volume is R x R x R again, and so is the output of
\* apply_3d_gaussian_blur, with a value at every voxel.
C12_SameSizeBlur ==
    pc = "field" =>
        /\ Len(field.gaussian_kernel.num) % 2 = 1
        /\ field.f.shape = GridShape
        /\ Conv1d(Permute(field.f), field.gaussian_kernel).shape = GridShape
        /\ op = "apply_3d_gaussian_blur"
              => /\ ret.val.shape = GridShape
                 /\ DOMAIN ret.val.val = Idx(GridShape)

\* A blur whose kernel (length 7) is longer than the grid (resolution 3).
C12_Witness ==
    /\ pc = "field"
    /\ op = "apply_3d_gaussian_blur"
    /\ config.f_grid_resolution = 3
    /\ Len(field.gaussian_kernel.num) = 7
    /\ ret.val.shape = <<3, 3, 3>>

\* The direct 3D convolution (cross-correlation, as F.conv3d) of a volume
\* with the outer product k (x) k (x) k, zero padding len(k) // 2 on every
\* axis.
Conv3dTap(vol, k, i, pad) ==
    SeqSum([a \in 1..Len(k.num) |-> SeqSum([b \in 1..Len(k.num) |->
        SeqSum([c \in 1..Len(k.num) |->
            k.num[a] * k.num[b] * k.num[c]
                * VolAt(vol, <<i[1] + a - 1 - pad, i[2] + b - 1 - pad,
                               i[3] + c - 1 - pad>>)])])])

Conv3d(vol, k) ==
    Tensor(vol.shape, [i \in Idx(vol.shape) |->
        FDiv(Conv3dTap(vol, k, i, Len(k.num) \div 2), k.den * k.den * k.den)])

\* C13: the three permute-then-convolve steps of apply_3d_gaussian_blur
\* give, for every test volume and test kernel, the direct 3D convolution
\* of the volume with the outer product of the kernel (same zero padding),
\* voxel by voxel with the axes in the order of the input.
C13_SeparableIsFull ==
    (pc = "field" /\ op = "apply_3d_gaussian_blur(vol)")
        => /\ ret.val.vol_3d_sep.shape = ret.val.vol.shape
           /\ ret.val.vol_3d_sep = Conv3d(ret.val.vol, ret.val.k)

\* The ramp at resolution 4 blurred with the asymmetric kernel: the result
\* differs along each axis.
C13_Witness ==
    /\ pc = "field"
    /\ op = "apply_3d_gaussian_blur(vol)"
    /\ config.f_grid_resolution = 4
    /\ ret.val.k.num = <<1, 2, 3>>
    /\ ret.val.vol = Ramp(<<4, 4, 4>>)
    /\ ret.val.vol_3d_sep.val[<<1, 0, 0>>] # ret.val.vol_3d_sep.val[<<0, 1, 0>>]
    /\ ret.val.vol_3d_sep.val[<<0, 1, 0>>] # ret.val.vol_3d_sep.val[<<0, 0, 1>>]

\* C14: no step changes the Gaussian kernel or the shape of the grid, and a
\* step that changes the values of the grid is the optimizer step: the
\* callbacks, the forward pass, the metrics, the loss and the image metrics
\* (with the certified radius) leave f as it was.  The shape is R x R x R
\* and the kernel the one of the configured sigma in every state.
C14_GridFrame ==
    /\ [](field.f.shape = GridShape
            /\ field.gaussian_kernel = make_gaussian_kernel(config.sigma))
    /\ [][/\ field'.gaussian_kernel = field.gaussian_kernel
           /\ field'.f.shape = field.f.shape
           /\ field'.f # field.f => op' = "optimizer_step"]_vars

\* The first iteration up to the optimizer step: both callbacks, the forward
\* pass, the metrics and the loss have run, alpha has moved, and the grid is
\* the constructed one.
C14_Witness ==
    /\ pc = "backward"
    /\ step = 0
    /\ iter_log = IterationOrder
    /\ field.g_transition_alpha = g_transition_alpha_default + 500
    /\ field.f = InitGrid(config.f_init, config.f_grid_resolution, 0)

\* alpha_0 + n * increment, and a field with its alpha set.
AlphaAt(n) == config.g_transition_alpha + n * config.g_transition_alpha_increments
WithAlpha(self, a) == [self EXCEPT !.g_transition_alpha = a]

\* C15: in iteration n = step + 1 a refresh of the occupancy grid evaluates
\* the opacity at alpha_0 + (n - 1) * increment, and the forward pass of the
\* same iteration computes the density at alpha_0 + n * increment; with a
\* nonzero increment the alpha of the refresh is not the alpha the iteration
\* renders with.
C15_OccupancyLagsAlpha ==
    /\ (op = "update_occupancy_grid" /\ ret.status = "returned"
            /\ ret.val.refreshed)
         => /\ ret.val.alpha = AlphaAt(step)
            /\ config.g_transition_alpha_increments # 0
                  => ret.val.alpha # AlphaAt(step + 1)
            /\ \A h \in BackboneOutputs :
                  \E r \in {get_opacity(WithAlpha(field, AlphaAt(step)), Points,
                                        config.render_step_size, h)} :
                      ret.val.occs = r.val
    /\ (pc = "metrics" /\ op = "get_outputs" /\ ret.status = "returned")
         => /\ field.g_transition_alpha = AlphaAt(step + 1)
            /\ \A h \in BackboneOutputs :
                  \E d \in {get_density(WithAlpha(field, AlphaAt(step + 1)),
                                        {ret.val.sample}, h)} :
                      ret.val.density = d.val.density[ret.val.sample]

\* The forward pass of the second iteration with the sigmoid g-transition
\* and a nonzero increment: its density is not the density at the alpha the
\* refresh of that iteration used.
C15_Witness ==
    /\ pc = "metrics"
    /\ op = "get_outputs"
    /\ step = 1
    /\ InLog("update_occupancy_grid")
    /\ config.g_transition_function = "sigmoid"
    /\ config.g_transition_alpha_increments = 500
    /\ \E d \in {get_density(WithAlpha(field, AlphaAt(step)),
                              {ret.val.sample}, [base_density |-> 0,
                                                 base_mlp_out |-> "feat0"])} :
          ret.val.density # d.val.density[ret.val.sample]

\* The field with another g-transition and another alpha.
WithTransition(self, g, a) ==
    [self EXCEPT !.g_transition_function = g, !.g_transition_alpha = a]

\* Two other settings of the g-transition: identity at the initial alpha,
\* and the sigmoid at an alpha two increments of 0.5 further.
OtherTransitions(self) ==
    {WithTransition(self, "identity", config.g_transition_alpha),
     WithTransition(self, "sigmoid", self.g_transition_alpha + Scale)}

\* C16: the radii and the eikonal loss get_certified_radius returned are
\* those it returns for the same grid, kernel, sigma and f-transition under
\* every other g-transition and alpha.
C16_RadiusIgnoresSharpening ==
    (op = "get_image_metrics_and_images" /\ radius.status = "returned")
        => \A other \in OtherTransitions(field) :
              get_certified_radius(other, TRUE, FALSE) = radius

\* A radius computed where the density does depend on the g-transition: the
\* sigmoid and the identity give different densities at the centre.
C16_Witness ==
    /\ op = "get_image_metrics_and_images"
    /\ radius.status = "returned"
    /\ IsFinite(radius.val.eikonal_loss)
    /\ field.g_transition_function = "sigmoid"
    /\ \E h \in BackboneOutputs :
          get_density(field, {<<500, 500, 500>>}, h).val.density
              # get_density(WithTransition(field, "identity",
                                           config.g_transition_alpha),
                            {<<500, 500, 500>>}, h).val.density

====
